---- MODULE Spec2Model ----
(***************************************************************************)
(* A model of the Drone task of isaacgymenvs/tasks/drone_plate.py: the     *)
(* per-tick state machine (pre_physics_step, post_physics_step), the        *)
(* episode reset (reset_idx), the target scheduler (set_targets) and the    *)
(* reward/termination function (compute_drone_reward).                      *)
(*                                                                         *)
(* Units.  Lengths are integers in tenths (1.0 is 10), quaternion           *)
(* components are integers in fifths (1.0 is 5), velocities are integers,   *)
(* an action component is an integer in tenths.  Quantities the code        *)
(* divides (the rewards, up.z) are exact rationals <<n, d>> with d > 0 in   *)
(* lowest terms: the arithmetic is that of the reals, so the float32        *)
(* rounding and overflow of the tensors are outside this model.             *)
(***************************************************************************)
EXTENDS Integers, Sequences, FiniteSets, TLC

\* ------------------------------------------------------------------ bounds
\* Number of environments of the batch (cfg numEnvs).
num_envs == 2
\* Largest maxEpisodeLength a run is configured with (cfg maxEpisodeLength > 0).
MaxLen == 3
\* The simulation time step sim_params.dt, in model force units.
dt == 1
\* epoch_count is a Python int; the model stops counting here.
MaxEpochCount == 2
\* Ticks a window specification runs from its sampled entry state.
MaxTicks == 2

\* ------------------------------------------------------- program constants
thrust_lower_limit == 0
thrust_upper_limit == 2000
thrust_velocity_scale == 2000
bodies_per_env == 6
\* progress_buf % 500 == 0
TargetPeriod == 500

Envs == 0 .. (num_envs - 1)

VARIABLES
    pc,                     \* which hook of the tick runs next
    max_episode_length,     \* cfg["env"]["maxEpisodeLength"]
    progress_buf,           \* [Envs -> Nat]
    reset_buf,              \* [Envs -> {0, 1}]
    rew_buf,                \* [Envs -> rational]
    root_states,            \* [Envs -> 13-tuple]: the drone actor's root state
    marker_states,          \* [Envs -> 13-tuple]: the plate/marker actor's root state
    sim_marker_states,      \* the simulator's own copy of the marker actors' state
    target_root_positions,  \* [Envs -> 3-tuple]
    initial_root_states,    \* the snapshot taken at construction
    initial_marker_states,
    thrusts,                \* [Envs -> 4-tuple]
    forces,                 \* [Envs -> [0 .. 5 -> 3-tuple]]
    epoch_count,
    \* what the last pre_physics_step saw and did (its locals, kept for the properties)
    entry_progress,         \* progress_buf on entry
    entry_reset,            \* reset_buf on entry
    entry_root_states,      \* root_states on entry
    entry_marker_states,    \* marker_states on entry
    entry_targets,          \* target_root_positions on entry
    set_target_ids,         \* the target-due environments, ascending
    reset_env_ids,          \* the reset environments, ascending
    reset_plates,           \* "none" (reset_idx not called), TRUE or FALSE
    target_actor_indices,   \* what set_targets returned, <<>> when it was not called
    reset_actor_indices,    \* actor_indices: what reset_idx returned, <<>> when it was not called
    thrust_prop,            \* [Envs -> 4-tuple]: thrust_prop_0 .. thrust_prop_3
    writes,                 \* the index tensors given to set_actor_root_state_tensor_indexed, in order
    touched,                \* the actor indices whose root state the step modified
    \* history counters
    tick,                   \* ticks begun so far in a window specification
    since_reset,            \* [Envs -> Nat]: pre_physics_steps since the environment's last reset
    since_target            \* [Envs -> Nat]: pre_physics_steps since the environment was last target-due

core == <<pc, max_episode_length, progress_buf, reset_buf, rew_buf, root_states,
          marker_states, sim_marker_states, target_root_positions,
          initial_root_states, initial_marker_states, thrusts, forces, epoch_count>>
locals == <<entry_progress, entry_reset, entry_root_states, entry_marker_states,
            entry_targets, set_target_ids, reset_env_ids, reset_plates,
            target_actor_indices, reset_actor_indices, thrust_prop, writes, touched>>
history == <<tick, since_reset, since_target>>
vars == <<core, locals, history>>

\* ----------------------------------------------------------------- helpers
Range(s) == {s[k] : k \in DOMAIN s}

Abs(x) == IF x < 0 THEN -x ELSE x

Min(a, b) == IF a < b THEN a ELSE b

RECURSIVE GCD(_, _)
GCD(a, b) == IF b = 0 THEN a ELSE GCD(b, a % b)

\* Exact rationals <<n, d>>, d > 0, in lowest terms.
QNorm(n, d) ==
    LET g == GCD(Abs(n), Abs(d))
        s == IF d < 0 THEN -1 ELSE 1
    IN  <<(s * n) \div g, (s * d) \div g>>

QInt(k) == <<k, 1>>

QAdd(a, b) ==
    LET g == GCD(a[2], b[2])
    IN  QNorm(a[1] * (b[2] \div g) + b[1] * (a[2] \div g), (a[2] \div g) * b[2])

QSub(a, b) == QAdd(a, <<-b[1], b[2]>>)

QMul(a, b) ==
    LET g1 == GCD(Abs(a[1]), b[2])
        g2 == GCD(Abs(b[1]), a[2])
        h1 == IF g1 = 0 THEN 1 ELSE g1
        h2 == IF g2 = 0 THEN 1 ELSE g2
    IN  QNorm((a[1] \div h1) * (b[1] \div h2), (a[2] \div h2) * (b[2] \div h1))

\* a / b for b # 0
QDiv(a, b) == QMul(a, QNorm(b[2], b[1]))

QAbs(a) == <<Abs(a[1]), a[2]>>

QLess(a, b) == a[1] * b[2] < b[1] * a[2]

QLeq(a, b) == a[1] * b[2] <= b[1] * a[2]

\* The ascending sequence of the members of a finite set of integers.
RECURSIVE SortedSeq(_)
SortedSeq(S) ==
    IF S = {} THEN <<>>
    ELSE LET m == CHOOSE x \in S : \A y \in S : x <= y
         IN  <<m>> \o SortedSeq(S \ {m})

\* tensor.nonzero(as_tuple=False).squeeze(-1) of a vector over Envs (a mask is 0/1)
nonzero(b) == SortedSeq({i \in Envs : b[i] # 0})

\* torch.unique of an index tensor: its values, sorted, each once
unique(s) == SortedSeq(Range(s))

all_actor_indices_flat(i, a) == i + a

\* self.all_actor_indices = arange(num_envs * 2).reshape((num_envs, 2))
all_actor_indices(i, a) == 2 * i + a

\* all_actor_indices[env_ids, a].flatten()
actor_indices_of(env_ids, a) == [k \in DOMAIN env_ids |-> all_actor_indices(env_ids[k], a)]

\* The slices of a 13-component root state.
Pos(s) == <<s[1], s[2], s[3]>>
Quat(s) == <<s[4], s[5], s[6], s[7]>>
LinVel(s) == <<s[8], s[9], s[10]>>
AngVel(s) == <<s[11], s[12], s[13]>>
State13(p, q, v, w) == p \o q \o v \o w


\* ---------------------------------------------------- compute_drone_reward
\* torch.ones_like / torch.zeros_like / torch.where, element-wise over the batch
ones_like(b) == [i \in DOMAIN b |-> 1]
zeros_like(b) == [i \in DOMAIN b |-> 0]
where(c, a, b) == [i \in DOMAIN c |-> IF c[i] THEN a[i] ELSE b[i]]

\* torch.square(target_root_positions - root_positions).sum(-1): the square of
\* target_dist, which the code takes the root of and squares again.
target_dist_sq(target, pos) ==
    QNorm((target[1] - pos[1]) * (target[1] - pos[1])
          + (target[2] - pos[2]) * (target[2] - pos[2])
          + (target[3] - pos[3]) * (target[3] - pos[3]), 100)

\* quat_axis(root_quats, 2)[..., 2]: the z component of the body z-axis rotated by
\* q = (x, y, z, w) into the world frame, a + b + c of quat_rotate with v = (0, 0, 1):
\* (2 w^2 - 1) + 0 + 2 z^2.
ups_z(q) == QNorm(2 * q[4] * q[4] + 2 * q[3] * q[3] - 25, 25)

pos_reward_mut(dist_sq) == QDiv(QInt(4), QAdd(QInt(1), dist_sq))

\* pos_reward = 3.0 / (1.0 + target_dist * target_dist)
pos_reward(dist_sq) == QDiv(QInt(3), QAdd(QInt(1), dist_sq))

\* tiltage = torch.abs(1 - ups[..., 2])
tiltage(upz) == QAbs(QSub(QInt(1), upz))

\* up_reward = 1.0 / (1.0 + tiltage * tiltage)
up_reward(t) == QDiv(QInt(1), QAdd(QInt(1), QMul(t, t)))

\* spinnage = torch.abs(root_angvels[..., 2])
spinnage(angvel) == QAbs(QInt(angvel[3]))

\* spinnage_reward = 1.0 / (1.0 + spinnage * spinnage)
spinnage_reward(s) == QDiv(QInt(1), QAdd(QInt(1), QMul(s, s)))

\* reward = pos_reward + pos_reward * (up_reward + spinnage_reward)
reward_of(pr, ur, sr) == QAdd(pr, QMul(pr, QAdd(ur, sr)))

die_of_mut(dist_sq, pos, upz, reset_in) ==
    LET ones == ones_like(reset_in)
        die0 == zeros_like(reset_in)
        die1 == where([i \in Envs |-> QLess(QInt(64), dist_sq[i])], ones, die0)
        die2 == where([i \in Envs |-> pos[i][3] < 5], ones, die1)
    IN  die2

\* die = zeros; die = where(target_dist > 8.0, ones, die);
\* die = where(root_positions[..., 2] < 0.5, ones, die); die = where(ups[..., 2] < 0, ones, die)
die_of(dist_sq, pos, upz, reset_in) ==
    LET ones == ones_like(reset_in)
        die0 == zeros_like(reset_in)
        die1 == where([i \in Envs |-> QLess(QInt(64), dist_sq[i])], ones, die0)
        die2 == where([i \in Envs |-> pos[i][3] < 5], ones, die1)
        die3 == where([i \in Envs |-> QLess(upz[i], QInt(0))], ones, die2)
    IN  die3

reset_of_mut(progress, max_len, ones, die) ==
    where([i \in Envs |-> progress[i] >= max_len], ones, die)

reset_of_after_limit(progress, max_len, ones, die) ==
    where([i \in Envs |-> progress[i] > max_len - 1], ones, die)

reset_of_die_only(progress, max_len, ones, die) == die

\* reset = torch.where(progress_buf >= max_episode_length - 1, ones, die)
reset_of(progress, max_len, ones, die) ==
    where([i \in Envs |-> progress[i] >= max_len - 1], ones, die)

\* compute_drone_reward(...): [reward, reset], each over the batch.  root_linvels is
\* a parameter the function never reads.
compute_drone_reward(root_positions, target_positions, root_quats, root_linvels, root_angvels, reset_in, progress, max_len) ==
    LET dist_sq == [i \in Envs |-> target_dist_sq(target_positions[i], root_positions[i])]
        upz == [i \in Envs |-> ups_z(root_quats[i])]
        reward == [i \in Envs |->
                     reward_of(pos_reward(dist_sq[i]),
                               up_reward(tiltage(upz[i])),
                               spinnage_reward(spinnage(root_angvels[i])))]
        die == die_of(dist_sq, root_positions, upz, reset_in)
        reset == reset_of(progress, max_len, ones_like(reset_in), die)
    IN  [reward |-> reward, reset |-> reset]

\* Drone.compute_reward: rew_buf[:], reset_buf[:] = compute_drone_reward(...)
compute_reward(rs, trp, rb, pb, max_len) ==
    compute_drone_reward([i \in Envs |-> Pos(rs[i])], trp,
                         [i \in Envs |-> Quat(rs[i])],
                         [i \in Envs |-> LinVel(rs[i])],
                         [i \in Envs |-> AngVel(rs[i])],
                         rb, pb, max_len)


\* ------------------------------------------------------------ sample inputs
\* Root states of a drone after a physics step: hovering on the target, flying
\* tilted and spinning, too far from the target, too low, flipped.
S_hover == State13(<<-50, -50, 10>>, <<0, 0, 0, 5>>, <<0, 0, 0>>, <<0, 0, 0>>)
S_fly   == State13(<<0, 0, 10>>, <<3, 0, 0, 4>>, <<1, 0, -1>>, <<0, 1, 2>>)
S_far   == State13(<<40, 0, 10>>, <<0, 0, 0, 5>>, <<2, 0, 0>>, <<0, 0, 0>>)
S_low   == State13(<<0, 0, 4>>, <<0, 0, 0, 5>>, <<0, 0, -3>>, <<0, 0, 1>>)
S_flip  == State13(<<0, 0, 10>>, <<5, 0, 0, 0>>, <<0, 2, 0>>, <<3, 0, 0>>)
AllRootStateSamples == {S_hover, S_fly, S_far, S_low, S_flip}
RootStateSamples == {S_fly, S_flip}
MinRootStateSamples == {S_hover, S_low}

\* Values of torch_rand_float(-1.5, 1.5), (-1.5, 1.5), (-0.2, 1.5): lower + (upper - lower) * rand,
\* rand in [0, 1).
OffsetSamples == {<<-15, -15, -2>>, <<14, 0, 14>>}
MinOffsetSamples == {<<-15, 14, -2>>}

\* Action 4-vectors (tenths); the rotors of the first are driven below the clamp
\* range, inside it, to its upper end and above it.
ActionSamples == {<<-30, 5, 10, 25>>}
MinActionSamples == {<<5, 5, 5, 5>>}

\* gymapi.Quat.from_axis_angle((cos d, sin d, 0), a) as (x, y, z, w):
\* (cos d sin(a/2), sin d sin(a/2), 0, cos(a/2)).
PlateQuatSamples == {<<0, 0, 0, 5>>, <<0, 3, 0, 4>>}

\* The plate tilts drawn at construction, one per environment.
TiltSamples == {[i \in Envs |-> IF i % 2 = 0 THEN <<0, 3, 0, 4>> ELSE <<3, 0, 0, 4>>]}

\* The origin of environment i in the simulator's frame (a row of the env grid).
env_origin(i) == <<20 * i, 0, 0>>

\* ------------------------------------------------------------- set_targets
set_targets_drone_index(env_ids, trp, ms) ==
    LET ids == Range(env_ids)
        trp2 == [i \in Envs |-> IF i \in ids THEN <<0 * 100 - 50, 0 * 100 - 50, 0 + 10>> ELSE trp[i]]
        ms2 == [i \in Envs |->
                  IF i \in ids
                  THEN State13(<<trp2[i][1], trp2[i][2], trp2[i][3] + 0>>,
                               Quat(ms[i]), LinVel(ms[i]), AngVel(ms[i]))
                  ELSE ms[i]]
    IN  [trp |-> trp2, ms |-> ms2,
         actor_indices |-> actor_indices_of(env_ids, 0),
         modified |-> {all_actor_indices(i, 1) : i \in ids}]

\* target_root_positions[env_ids, 0:2] = zeros * 10 - 5; [env_ids, 2] = zeros + 1;
\* marker_positions[env_ids] = target_root_positions[env_ids]; marker z += 0.0;
\* returns all_actor_indices[env_ids, 1].
set_targets(env_ids, trp, ms) ==
    LET ids == Range(env_ids)
        trp2 == [i \in Envs |-> IF i \in ids THEN <<0 * 100 - 50, 0 * 100 - 50, 0 + 10>> ELSE trp[i]]
        ms2 == [i \in Envs |->
                  IF i \in ids
                  THEN State13(<<trp2[i][1], trp2[i][2], trp2[i][3] + 0>>,
                               Quat(ms[i]), LinVel(ms[i]), AngVel(ms[i]))
                  ELSE ms[i]]
    IN  [trp |-> trp2, ms |-> ms2,
         actor_indices |-> actor_indices_of(env_ids, 1),
         modified |-> {all_actor_indices(i, 1) : i \in ids}]

\* --------------------------------------------------------------- reset_idx
reset_root_state_keep(s, init_s, o) ==
    State13(<<init_s[1] + o[1], init_s[2] + o[2], init_s[3] + o[3]>>,
            Quat(init_s), LinVel(s), AngVel(s))

reset_root_state_twice(s, init_s, o) ==
    State13(<<init_s[1] + o[1], init_s[2] + o[2], init_s[3] + o[3] + o[3]>>,
            Quat(init_s), LinVel(init_s), AngVel(init_s))

\* root_states[env_ids] = initial_root_states[env_ids]; then columns 0, 1 and 2 += the
\* draws o: the state s before the reset is overwritten whole.
reset_root_state(s, init_s, o) ==
    State13(<<init_s[1] + o[1], init_s[2] + o[2], init_s[3] + o[3]>>,
            Quat(init_s), LinVel(init_s), AngVel(init_s))

cleared_all(b, ids) == [i \in Envs |-> 0]

cleared_none(b, ids) == b

\* buf[env_ids] = 0
cleared(b, ids) == [i \in Envs |-> IF i \in ids THEN 0 ELSE b[i]]

\* off[i]: the three torch_rand_float draws of environment i; pq[i]: its plate quat draw.
reset_idx(env_ids, plates, rs, ms, rb, pb, init_rs, off, pq) ==
    LET ids == Range(env_ids)
        actor_indices == actor_indices_of(env_ids, 0)
        rs2 == [i \in Envs |->
                  IF i \in ids THEN reset_root_state(rs[i], init_rs[i], off[i]) ELSE rs[i]]
        \* if reset_plates: marker_states[env_ids, 3:7] = [quat.w, quat.x, quat.y, quat.z]
        ms2 == [i \in Envs |->
                  IF plates /\ i \in ids
                  THEN State13(Pos(ms[i]), <<pq[i][4], pq[i][1], pq[i][2], pq[i][3]>>,
                               LinVel(ms[i]), AngVel(ms[i]))
                  ELSE ms[i]]
    IN  [rs |-> rs2, ms |-> ms2,
         \* set_actor_root_state_tensor_indexed(..., actor_indices, ...)
         write |-> actor_indices,
         \* reset_buf[env_ids] = 0; progress_buf[env_ids] = 0
         rb |-> cleared(rb, ids),
         pb |-> cleared(pb, ids),
         \* return torch.unique(actor_indices)
         actor_indices |-> unique(actor_indices),
         modified |-> {all_actor_indices(i, 0) : i \in ids}
                      \cup (IF plates THEN {all_actor_indices(i, 1) : i \in ids} ELSE {})]

\* -------------------------------------------------------- pre_physics_step
\* torch.clamp(x, lo, hi)
clamp(x, lo, hi) == IF x < lo THEN lo ELSE IF x > hi THEN hi ELSE x

thrust_of_unclamped_above(a) ==
    clamp((a * thrust_velocity_scale) \div 10, thrust_lower_limit, 2 * thrust_upper_limit)

\* thrust_prop_k = clamp(actions[:, k] * thrust_velocity_scale, lower, upper); a in tenths
thrust_of(a) ==
    clamp((a * thrust_velocity_scale) \div 10, thrust_lower_limit, thrust_upper_limit)

target_due_off_by_one(pb) == nonzero([i \in Envs |-> IF pb[i] % TargetPeriod = 1 THEN 1 ELSE 0])

\* set_target_ids = (progress_buf % 500 == 0).nonzero()
target_due(pb) == nonzero([i \in Envs |-> IF pb[i] % TargetPeriod = 0 THEN 1 ELSE 0])

plates_flag_always(pb, env_ids) == TRUE

\* reset_plates = (progress_buf[reset_env_ids] == 0).all().item()
plates_flag(pb, env_ids) == \A k \in DOMAIN env_ids : pb[env_ids[k]] = 0

zero_forces == [b \in 0 .. (bodies_per_env - 1) |-> <<0, 0, 0>>]

forces_of_unzeroed(f, tp, ids) ==
    [i \in Envs |->
       [b \in 0 .. (bodies_per_env - 1) |->
          IF b \in 1 .. 4 THEN <<f[i][b][1], f[i][b][2], dt * tp[i][b]>> ELSE f[i][b]]]

\* forces[:, 1..4, 2] = dt * thrust_prop_0..3; forces[reset_env_ids] = 0.0
forces_of(f, tp, ids) ==
    [i \in Envs |->
       IF i \in ids THEN zero_forces
       ELSE [b \in 0 .. (bodies_per_env - 1) |->
               IF b \in 1 .. 4 THEN <<f[i][b][1], f[i][b][2], dt * tp[i][b]>> ELSE f[i][b]]]

PrePhysicsStep(ActionSet, OffsetSet) ==
    /\ pc = "pre"
    /\ \E _actions \in [Envs -> ActionSet] :
       LET ids_t == target_due(progress_buf)
           t == IF Len(ids_t) > 0
                THEN set_targets(ids_t, target_root_positions, marker_states)
                ELSE [trp |-> target_root_positions, ms |-> marker_states,
                      actor_indices |-> <<>>, modified |-> {}]
           ids_r == nonzero(reset_buf)
           called == Len(ids_r) > 0
           plates == plates_flag(progress_buf, ids_r)
       IN  \E off \in [Range(ids_r) -> OffsetSet],
              pq \in [IF plates THEN Range(ids_r) ELSE {} -> PlateQuatSamples] :
           LET r == IF called
                    THEN reset_idx(ids_r, plates, root_states, t.ms, reset_buf,
                                   progress_buf, initial_root_states, off, pq)
                    ELSE [rs |-> root_states, ms |-> t.ms, write |-> <<>>,
                          rb |-> reset_buf, pb |-> progress_buf,
                          actor_indices |-> <<>>, modified |-> {}]
               \* reset_indices = torch.unique(torch.cat([target_actor_indices, actor_indices]))
               reset_indices == unique(t.actor_indices \o r.actor_indices)
               tp == [i \in Envs |-> [k \in 1 .. 4 |-> thrust_of(_actions[i][k])]]
           IN  /\ entry_progress' = progress_buf
               /\ entry_reset' = reset_buf
               /\ entry_root_states' = root_states
               /\ entry_marker_states' = marker_states
               /\ entry_targets' = target_root_positions
               /\ set_target_ids' = ids_t
               /\ reset_env_ids' = ids_r
               /\ reset_plates' = IF called THEN plates ELSE "none"
               /\ target_actor_indices' = t.actor_indices
               /\ reset_actor_indices' = r.actor_indices
               /\ target_root_positions' = t.trp
               /\ root_states' = r.rs
               /\ marker_states' = r.ms
               /\ reset_buf' = r.rb
               /\ progress_buf' = r.pb
               /\ writes' = (IF called THEN <<r.write>> ELSE <<>>)
                            \o (IF Len(reset_indices) > 0 THEN <<reset_indices>> ELSE <<>>)
               /\ touched' = t.modified \cup r.modified
               \* the simulator takes the state of the actors named in the indexed write
               /\ sim_marker_states' =
                     [i \in Envs |-> IF all_actor_indices(i, 1) \in Range(reset_indices)
                                     THEN r.ms[i] ELSE sim_marker_states[i]]
               /\ thrust_prop' = tp
               /\ forces' = forces_of(forces, tp, Range(ids_r))
               \* thrusts[reset_env_ids] = 0.0
               /\ thrusts' = [i \in Envs |-> IF i \in Range(ids_r) THEN <<0, 0, 0, 0>> ELSE thrusts[i]]
               /\ pc' = "post"
               /\ UNCHANGED <<max_episode_length, rew_buf, initial_root_states,
                              initial_marker_states, epoch_count>>

\* ------------------------------------------------------- post_physics_step
\* self.progress_buf += 1
progress_step(pb) == [i \in Envs |-> pb[i] + 1]

\* if (progress_buf >= max_episode_length).all(): epoch_count += 1
epoch_step(pb, max_len, n) ==
    IF \A i \in Envs : pb[i] >= max_len THEN Min(n + 1, MaxEpochCount) ELSE n

\* phys: the drones' root states after the physics step, read by the refresh; the
\* fixed-base marker actors read back the simulator's copy.
PostPhysicsStep(StateSet) ==
    /\ pc = "post"
    /\ \E phys \in [Envs -> StateSet] :
       LET pb == progress_step(progress_buf)
           cr == compute_reward(phys, target_root_positions, reset_buf, pb, max_episode_length)
       IN  /\ progress_buf' = pb
           /\ epoch_count' = epoch_step(pb, max_episode_length, epoch_count)
           /\ root_states' = phys
           /\ marker_states' = sim_marker_states
           /\ rew_buf' = cr.reward
           /\ reset_buf' = cr.reset
           /\ pc' = "pre"
           /\ UNCHANGED <<max_episode_length, sim_marker_states, target_root_positions,
                          initial_root_states, initial_marker_states, thrusts, forces,
                          locals>>


\* -------------------------------------------------------------------- Init
\* VecTask's buffers as the task starts: progress 0, reset 0, reward 0.
InitBuffers ==
    /\ progress_buf = [i \in Envs |-> 0]
    /\ reset_buf = [i \in Envs |-> 0]
    /\ rew_buf = [i \in Envs |-> QInt(0)]

\* _create_envs and __init__: every drone and plate is created at default_pose
\* (p.z = 1.0) in its environment; default_pose.r is set to the plate's tilt before
\* the plate is created and stays set for the next environment's drone.
created_root_states(tilt) ==
    [i \in Envs |->
       State13(<<env_origin(i)[1], env_origin(i)[2], env_origin(i)[3] + 10>>,
               IF i = 0 THEN <<0, 0, 0, 5>> ELSE tilt[i - 1],
               <<0, 0, 0>>, <<0, 0, 0>>)]

created_marker_states(tilt) ==
    [i \in Envs |->
       State13(<<env_origin(i)[1], env_origin(i)[2], env_origin(i)[3] + 10>>,
               tilt[i], <<0, 0, 0>>, <<0, 0, 0>>)]

InitTask(Lengths) ==
    /\ max_episode_length \in Lengths
    /\ epoch_count = 0
    /\ \E tilt \in TiltSamples :
         /\ root_states = created_root_states(tilt)
         /\ marker_states = created_marker_states(tilt)
    /\ sim_marker_states = marker_states
    \* target_root_positions = zeros; [:, 2] = 1
    /\ target_root_positions = [i \in Envs |-> <<0, 0, 10>>]
    /\ initial_root_states = root_states
    /\ initial_marker_states = marker_states
    /\ thrusts = [i \in Envs |-> <<0, 0, 0, 0>>]
    /\ forces = [i \in Envs |-> zero_forces]

InitLocals ==
    /\ entry_progress = progress_buf
    /\ entry_reset = reset_buf
    /\ entry_root_states = root_states
    /\ entry_marker_states = marker_states
    /\ entry_targets = target_root_positions
    /\ set_target_ids = <<>>
    /\ reset_env_ids = <<>>
    /\ reset_plates = "none"
    /\ target_actor_indices = <<>>
    /\ reset_actor_indices = <<>>
    /\ thrust_prop = [i \in Envs |-> [k \in 1 .. 4 |-> 0]]
    /\ writes = <<>>
    /\ touched = {}

InitHistory ==
    /\ tick = 0
    /\ since_reset = [i \in Envs |-> 0]
    /\ since_target = [i \in Envs |-> 0]

Init ==
    /\ pc = "pre"
    /\ InitBuffers
    /\ InitTask(1 .. MaxLen)
    /\ InitLocals
    /\ InitHistory

\* ----------------------------------------------------------- history counters
\* since_reset counts the ticks an environment has completed since reset_idx last
\* acted on it; since_target counts the pre_physics_steps since it was last target-due.
SinceResetPre ==
    since_reset' = [i \in Envs |-> IF i \in Range(reset_env_ids') THEN 0 ELSE since_reset[i]]
SinceResetPost ==
    since_reset' = [i \in Envs |-> Min(since_reset[i] + 1, MaxLen + 2)]
SinceTargetPre ==
    since_target' = [i \in Envs |-> IF i \in Range(set_target_ids') THEN 0
                                    ELSE Min(since_target[i] + 1, TargetPeriod)]

\* ------------------------------------------------------------------- Spec
\* The task stepped from construction: VecTask.step calls pre_physics_step, steps
\* the simulator and calls post_physics_step.
pre_physics_step ==
    /\ PrePhysicsStep(ActionSamples, OffsetSamples)
    /\ SinceResetPre
    /\ UNCHANGED <<tick, since_target>>

post_physics_step ==
    /\ PostPhysicsStep(RootStateSamples)
    /\ SinceResetPost
    /\ UNCHANGED <<tick, since_target>>

Next == pre_physics_step \/ post_physics_step

Spec == Init /\ [][Next]_vars

\* The training loop never stops stepping: a tick's hook always hands over to the
\* next one.  Every step of Next is such a hand-over and one is always possible,
\* so this is weak fairness of Next, stated on pc alone.
Advance == pc' = (IF pc = "pre" THEN "post" ELSE "pre")
FairSpec == Spec /\ WF_pc(Advance)

\* ------------------------------------------------------------- SpecPeriod
\* The same run followed for more than TargetPeriod ticks, with one action, one
\* reset offset and two physics outcomes (flying on, fallen) per environment.
period_pre_physics_step ==
    /\ PrePhysicsStep(MinActionSamples, MinOffsetSamples)
    /\ SinceResetPre
    /\ SinceTargetPre
    /\ UNCHANGED tick

period_post_physics_step ==
    /\ PostPhysicsStep(MinRootStateSamples)
    /\ SinceResetPost
    /\ UNCHANGED <<tick, since_target>>

NextPeriod == period_pre_physics_step \/ period_post_physics_step

SpecPeriod == Init /\ [][NextPeriod]_vars

\* ------------------------------------------------------------- SpecWindow
\* MaxTicks ticks of a run whose episodes are longer than TargetPeriod, entered
\* either at construction or between two ticks of the run.  Between two ticks
\* every environment has a progress counter in 1 .. max_episode_length - 1 (it was
\* last reset that many ticks ago), the drone state the last physics step left,
\* the reward and reset flag compute_reward derived from them, the target
\* set_targets wrote on the first tick, the marker on that target with the tilt
\* it was created with, and rotor forces of the last action unless it was reset
\* on the last tick.
WindowLengths == {TargetPeriod + 1, TargetPeriod + 2}
WindowProgress == {1, 2, TargetPeriod - 1, TargetPeriod}

InitWindow ==
    /\ pc = "pre"
    /\ max_episode_length \in WindowLengths
    /\ epoch_count = 0
    /\ \E tilt \in TiltSamples :
         /\ initial_root_states = created_root_states(tilt)
         /\ initial_marker_states = created_marker_states(tilt)
    /\ \/ /\ InitBuffers
          /\ root_states = initial_root_states
          /\ marker_states = initial_marker_states
          /\ target_root_positions = [i \in Envs |-> <<0, 0, 10>>]
          /\ forces = [i \in Envs |-> zero_forces]
       \/ /\ progress_buf \in [Envs -> {p \in WindowProgress : p < max_episode_length}]
          /\ root_states \in [Envs -> MinRootStateSamples]
          /\ LET t == set_targets(SortedSeq(Envs), [i \in Envs |-> <<0, 0, 10>>],
                                  initial_marker_states)
                 cr == compute_reward(root_states, t.trp, [i \in Envs |-> 0],
                                      progress_buf, max_episode_length)
             IN  /\ target_root_positions = t.trp
                 /\ marker_states = t.ms
                 /\ rew_buf = cr.reward
                 /\ reset_buf = cr.reset
          /\ \E _actions \in [Envs -> MinActionSamples] :
               forces = forces_of([i \in Envs |-> zero_forces],
                                  [i \in Envs |-> [k \in 1 .. 4 |-> thrust_of(_actions[i][k])]],
                                  {i \in Envs : progress_buf[i] = 1})
    /\ sim_marker_states = marker_states
    /\ thrusts = [i \in Envs |-> <<0, 0, 0, 0>>]
    /\ InitLocals
    /\ InitHistory

window_pre_physics_step ==
    /\ tick < MaxTicks
    /\ PrePhysicsStep(MinActionSamples, MinOffsetSamples)
    /\ tick' = tick + 1
    /\ UNCHANGED <<since_reset, since_target>>

window_post_physics_step ==
    /\ PostPhysicsStep(MinRootStateSamples)
    /\ UNCHANGED history

NextWindow == window_pre_physics_step \/ window_post_physics_step

SpecWindow == InitWindow /\ [][NextWindow]_vars


\* ------------------------------------------------------------- SpecReward
\* compute_reward applied once to sampled inputs: any root state, either target,
\* a progress counter below, at and past the time limit, any reset flags passed in.
TargetSamples == {<<-50, -50, 10>>, <<0, 0, 10>>}
ResetInSamples == {[i \in Envs |-> 0], [i \in Envs |-> 1], [i \in Envs |-> i % 2]}

InitReward ==
    /\ pc = "reward"
    /\ max_episode_length \in 1 .. MaxLen
    /\ root_states \in [Envs -> AllRootStateSamples]
    /\ \E tgt \in TargetSamples : target_root_positions = [i \in Envs |-> tgt]
    /\ progress_buf \in [Envs -> {0, max_episode_length - 1, max_episode_length}]
    /\ reset_buf \in ResetInSamples
    /\ rew_buf = [i \in Envs |-> QInt(0)]
    /\ epoch_count = 0
    /\ marker_states = [i \in Envs |-> S_hover]
    /\ sim_marker_states = marker_states
    /\ initial_root_states = root_states
    /\ initial_marker_states = marker_states
    /\ thrusts = [i \in Envs |-> <<0, 0, 0, 0>>]
    /\ forces = [i \in Envs |-> zero_forces]
    /\ InitLocals
    /\ InitHistory

compute_reward_call ==
    /\ pc = "reward"
    /\ LET cr == compute_reward(root_states, target_root_positions, reset_buf,
                                progress_buf, max_episode_length)
       IN  /\ rew_buf' = cr.reward
           /\ reset_buf' = cr.reset
    /\ entry_reset' = reset_buf
    /\ entry_progress' = progress_buf
    /\ pc' = "rewarded"
    /\ UNCHANGED <<max_episode_length, progress_buf, root_states, marker_states,
                   sim_marker_states, target_root_positions, initial_root_states,
                   initial_marker_states, thrusts, forces, epoch_count,
                   entry_root_states, entry_marker_states, entry_targets,
                   set_target_ids, reset_env_ids, reset_plates, target_actor_indices,
                   reset_actor_indices, thrust_prop, writes, touched, history>>

NextReward == compute_reward_call

SpecReward == InitReward /\ [][NextReward]_vars

\* The three physical termination conditions and the time limit of environment i,
\* read off the inputs.
TooFar(i) ==
    LET dx == target_root_positions[i][1] - root_states[i][1]
        dy == target_root_positions[i][2] - root_states[i][2]
        dz == target_root_positions[i][3] - root_states[i][3]
    IN  dx * dx + dy * dy + dz * dz > 6400
TooLow(i) == root_states[i][3] < 5
Flipped(i) == 2 * root_states[i][7] * root_states[i][7] + 2 * root_states[i][6] * root_states[i][6] < 25
AtTimeLimit(i) == progress_buf[i] >= max_episode_length - 1

\* C1: an environment whose progress counter equals max_episode_length - 1 when
\* compute_drone_reward is evaluated gets reset = 1, whatever die is.
C1_TimeLimitForcesReset ==
    pc = "rewarded" =>
        \A i \in Envs : progress_buf[i] = max_episode_length - 1 => reset_buf[i] = 1

\* C1 witness: an environment at the limit that no physical condition terminates.
C1_Witness ==
    /\ pc = "rewarded"
    /\ \E i \in Envs : /\ progress_buf[i] = max_episode_length - 1
                       /\ ~TooFar(i) /\ ~TooLow(i) /\ ~Flipped(i)
                       /\ reset_buf[i] = 1

\* C2: reset of environment i is 1 exactly when one of its own four conditions
\* holds, whatever the other environments and the flags passed in are.
C2_ResetExact ==
    pc = "rewarded" =>
        \A i \in Envs :
            /\ reset_buf[i] \in {0, 1}
            /\ reset_buf[i] = 1 <=> (TooFar(i) \/ TooLow(i) \/ Flipped(i) \/ AtTimeLimit(i))

\* C2 witness: far below the limit, one environment is too low only and is reset
\* while another, passed a set flag, is not.
C2_Witness ==
    /\ pc = "rewarded"
    /\ \E i, j \in Envs :
          /\ i # j
          /\ progress_buf[i] = 0 /\ max_episode_length >= 3
          /\ TooLow(i) /\ ~TooFar(i) /\ ~Flipped(i) /\ reset_buf[i] = 1 /\ entry_reset[i] = 0
          /\ ~AtTimeLimit(j) /\ entry_reset[j] = 1 /\ reset_buf[j] = 0

\* C6 as stated: every reward is greater than 0 and at most 6.
C6_RewardAtMost6 ==
    pc = "rewarded" =>
        \A i \in Envs : QLess(QInt(0), rew_buf[i]) /\ QLeq(rew_buf[i], QInt(6))

\* C6 amended: every reward is greater than 0 and at most 9.
C6_RewardAtMost9 ==
    pc = "rewarded" =>
        \A i \in Envs : QLess(QInt(0), rew_buf[i]) /\ QLeq(rew_buf[i], QInt(9))

\* C6 witness: on the target, upright and not spinning the reward is 9.
C6_Witness ==
    /\ pc = "rewarded"
    /\ \E i \in Envs : /\ Pos(root_states[i]) = target_root_positions[i]
                       /\ Quat(root_states[i]) = <<0, 0, 0, 5>>
                       /\ AngVel(root_states[i])[3] = 0
                       /\ rew_buf[i] = <<9, 1>>


\* ------------------------------------------------- properties of the tick
\* The environments pre_physics_step found flagged for reset on entry.
FlaggedOnEntry(i) == entry_reset[i] # 0

\* C3: after pre_physics_step every environment flagged on entry has reset flag 0,
\* progress 0 and a position within [-1.5, 1.5] x [-1.5, 1.5] x [-0.2, 1.5] of the
\* snapshot's.
C3_ResetPostcondition ==
    pc = "post" =>
        \A i \in Envs :
            FlaggedOnEntry(i) =>
                /\ reset_buf[i] = 0
                /\ progress_buf[i] = 0
                /\ root_states[i][1] - initial_root_states[i][1] \in -15 .. 15
                /\ root_states[i][2] - initial_root_states[i][2] \in -15 .. 15
                /\ root_states[i][3] - initial_root_states[i][3] \in -2 .. 15

\* C3 witness: an environment that had run and moved is reset off the snapshot.
C3_Witness ==
    /\ pc = "post"
    /\ \E i \in Envs : /\ FlaggedOnEntry(i)
                       /\ entry_progress[i] > 0
                       /\ Pos(entry_root_states[i]) # Pos(root_states[i])
                       /\ Pos(root_states[i]) # Pos(initial_root_states[i])

\* C7: every per-rotor thrust pre_physics_step computes lies in [0, 2000], and every
\* z-force it applies in [0, dt * 2000].
C7_ThrustClamped ==
    pc = "post" =>
        \A i \in Envs : \A k \in 1 .. 4 :
            /\ thrust_prop[i][k] \in 0 .. 2000
            /\ forces[i][k][3] \in 0 .. (dt * 2000)

\* C7 witness: an action below the range, inside it and above it, clamped and applied.
C7_Witness ==
    /\ pc = "post"
    /\ \E i \in Envs : /\ thrust_prop[i] = <<0, 1000, 2000, 2000>>
                       /\ ~FlaggedOnEntry(i)
                       /\ forces[i][2][3] = dt * 1000
                       /\ forces[i][4][3] = dt * 2000

\* C8: after a reset the orientation, linear velocity and angular velocity of the
\* environment are the snapshot's, whatever they were before.
C8_ResetRoundTrip ==
    pc = "post" =>
        \A i \in Envs :
            FlaggedOnEntry(i) =>
                /\ Quat(root_states[i]) = Quat(initial_root_states[i])
                /\ LinVel(root_states[i]) = LinVel(initial_root_states[i])
                /\ AngVel(root_states[i]) = AngVel(initial_root_states[i])

\* C8 witness: the state before the reset differed from the snapshot in all three.
C8_Witness ==
    /\ pc = "post"
    /\ \E i \in Envs : /\ FlaggedOnEntry(i)
                       /\ Quat(entry_root_states[i]) # Quat(initial_root_states[i])
                       /\ LinVel(entry_root_states[i]) # LinVel(initial_root_states[i])
                       /\ AngVel(entry_root_states[i]) # AngVel(initial_root_states[i])
                       /\ Pos(root_states[i]) # Pos(initial_root_states[i])

\* C9: every environment is reset again and again, no episode outlasts
\* max_episode_length ticks, and a flag set when pre_physics_step begins is consumed
\* by a reset in that step.
C9_NoTerminalState ==
    /\ \A i \in Envs : []<>(pc = "post" /\ i \in Range(reset_env_ids))
    /\ [](\A i \in Envs : since_reset[i] <= max_episode_length)
    /\ [](pc = "post" => \A i \in Envs : /\ reset_buf[i] = 0
                                         /\ FlaggedOnEntry(i) => /\ i \in Range(reset_env_ids)
                                                                 /\ progress_buf[i] = 0)

\* C9 witness: one environment reset by the time limit after a full episode and
\* another reset early.
C9_Witness ==
    /\ pc = "post"
    /\ max_episode_length = MaxLen
    /\ \E i, j \in Envs : /\ i \in Range(reset_env_ids)
                          /\ entry_progress[i] = max_episode_length - 1
                          /\ j \in Range(reset_env_ids)
                          /\ entry_progress[j] < max_episode_length - 1

\* Every environment's reset was forced by the time limit in the tick before.
FullBatchAtLimit == \A i \in Envs : FlaggedOnEntry(i) /\ entry_progress[i] >= max_episode_length - 1

\* C10: when the whole batch reaches the time limit on the same tick, the reset of
\* the following pre_physics_step is made with reset_plates = True.
C10_PlatesOnFullBatch ==
    (pc = "post" /\ FullBatchAtLimit) => reset_plates = TRUE

\* ---------------------------------------------------------------------------
\* C4: target re-sampling is exact.  A pre_physics_step passes to set_targets
\* exactly the environments whose progress counter is a multiple of 500 on entry;
\* it gives each of them the new target, moves its marker onto it (in the tensor
\* and in the simulator) and touches the marker actor; it leaves the target and
\* the marker position of every other environment as they were; and
\* post_physics_step changes no target and no marker position.
NewTarget == <<-50, -50, 10>>

C4_TargetResamplingExact ==
    [][ /\ pc = "pre" =>
            \A i \in Envs :
               /\ (i \in Range(set_target_ids')) <=> (progress_buf[i] % TargetPeriod = 0)
               /\ progress_buf[i] % TargetPeriod = 0 =>
                     /\ target_root_positions'[i] = NewTarget
                     /\ Pos(marker_states'[i]) = NewTarget
                     /\ Pos(sim_marker_states'[i]) = NewTarget
                     /\ all_actor_indices(i, 1) \in touched'
               /\ progress_buf[i] % TargetPeriod # 0 =>
                     /\ target_root_positions'[i] = target_root_positions[i]
                     /\ Pos(marker_states'[i]) = Pos(marker_states[i])
                     /\ Pos(sim_marker_states'[i]) = Pos(sim_marker_states[i])
                     /\ all_actor_indices(i, 1) \notin touched'
        /\ pc = "post" =>
            /\ target_root_positions' = target_root_positions
            /\ \A i \in Envs : Pos(marker_states'[i]) = Pos(marker_states[i]) ]_vars

\* One environment entered the tick with progress 500 and got the target, another
\* entered it with a progress that is no multiple of 500 and kept its own.
C4_Witness ==
    /\ pc = "post"
    /\ \E i, j \in Envs :
         /\ entry_progress[i] = TargetPeriod
         /\ i \in Range(set_target_ids)
         /\ target_root_positions[i] = NewTarget
         /\ entry_progress[j] % TargetPeriod # 0
         /\ j \notin Range(set_target_ids)
         /\ target_root_positions[j] = entry_targets[j]

\* ---------------------------------------------------------------------------
\* C5: every environment is target-due at least once in every window of 500
\* consecutive ticks, whatever resets fall inside the window: no environment
\* begins 500 pre_physics_steps in a row without being target-due in one of them.
C5_TargetDueEveryWindow ==
    \A i \in Envs : since_target[i] < TargetPeriod

\* ---------------------------------------------------------------------------
\* C11: on every tick whose reset is not a full-batch reset forced by the time
\* limit, pre_physics_step leaves the orientation quaternion of every plate as it
\* was, in the tensor and in the simulator.
C11_PlateFixedOtherwise ==
    (pc = "post" /\ ~FullBatchAtLimit) =>
        \A i \in Envs :
           /\ Quat(marker_states[i]) = Quat(entry_marker_states[i])
           /\ Quat(sim_marker_states[i]) = Quat(entry_marker_states[i])

\* One environment died early and was reset while another went on with its
\* episode, and the plates kept their tilt.
C11_Witness ==
    /\ pc = "post"
    /\ \E i, j \in Envs :
         /\ i \in Range(reset_env_ids)
         /\ entry_progress[i] < max_episode_length - 1
         /\ j \notin Range(reset_env_ids)
         /\ entry_progress[j] >= 1
         /\ Quat(marker_states[i]) = Quat(initial_marker_states[i])
         /\ Quat(marker_states[j]) = Quat(initial_marker_states[j])

\* ---------------------------------------------------------------------------
\* C12: a pre_physics_step issues the indexed root-state write at most once, and
\* the one write carries the deduplicated union of the target and reset indices.
C12_SingleWrite ==
    pc = "post" =>
        /\ Len(writes) <= 1
        /\ Len(writes) = 1 =>
              writes[1] = unique(target_actor_indices \o reset_actor_indices)

\* ---------------------------------------------------------------------------
\* C13: when pre_physics_step applies the forces, every entry of the force buffer
\* of an environment reset on this tick is 0, and an environment not reset carries
\* dt times the clamped thrust of the current action on the z axis of its four
\* rotors and nothing elsewhere.
C13_NoStaleThrustOnReset ==
    pc = "post" =>
        \A i \in Envs : \A b \in 0 .. (bodies_per_env - 1) :
            IF i \in Range(reset_env_ids)
            THEN forces[i][b] = <<0, 0, 0>>
            ELSE forces[i][b] =
                    <<0, 0, IF b \in 1 .. 4 THEN dt * thrust_prop[i][b] ELSE 0>>

\* An environment that flew under thrust on the last tick is reset and its forces
\* are zero, while another one is pushed by the current action.
C13_Witness ==
    /\ pc = "post"
    /\ \E i, j \in Envs :
         /\ i \in Range(reset_env_ids)
         /\ thrust_prop[i][3] = thrust_upper_limit
         /\ forces[i] = zero_forces
         /\ j \notin Range(reset_env_ids)
         /\ forces[j][3][3] = dt * thrust_upper_limit
         /\ entry_progress[i] >= 1

\* ----------------------------------------------------------- SpecResetIdx
\* reset_idx called on its own: any non-empty set of environments, either value of
\* reset_plates, drones in the states a physics step leaves, counters and flags
\* set or not.
InitResetIdx ==
    /\ pc = "reset_idx"
    /\ max_episode_length = MaxLen
    /\ epoch_count = 0
    /\ \E tilt \in TiltSamples :
         /\ initial_root_states = created_root_states(tilt)
         /\ initial_marker_states = created_marker_states(tilt)
    /\ root_states \in [Envs -> RootStateSamples]
    /\ marker_states = initial_marker_states
    /\ sim_marker_states = marker_states
    /\ target_root_positions = [i \in Envs |-> <<0, 0, 10>>]
    /\ reset_env_ids \in {SortedSeq(S) : S \in (SUBSET Envs) \ {{}}}
    /\ reset_plates \in BOOLEAN
    /\ reset_buf \in {[i \in Envs |-> IF i \in Range(reset_env_ids) THEN 1 ELSE 0],
                      [i \in Envs |-> 1]}
    /\ progress_buf \in {[i \in Envs |-> 0], [i \in Envs |-> i + 1]}
    /\ rew_buf = [i \in Envs |-> QInt(0)]
    /\ thrusts = [i \in Envs |-> <<0, 0, 0, 0>>]
    /\ forces = [i \in Envs |-> zero_forces]
    /\ entry_progress = progress_buf
    /\ entry_reset = reset_buf
    /\ entry_root_states = root_states
    /\ entry_marker_states = marker_states
    /\ entry_targets = target_root_positions
    /\ set_target_ids = <<>>
    /\ target_actor_indices = <<>>
    /\ reset_actor_indices = <<>>
    /\ thrust_prop = [i \in Envs |-> [k \in 1 .. 4 |-> 0]]
    /\ writes = <<>>
    /\ touched = {}
    /\ InitHistory

reset_idx_call ==
    /\ pc = "reset_idx"
    /\ \E off \in [Range(reset_env_ids) -> MinOffsetSamples],
          pq \in [IF reset_plates THEN Range(reset_env_ids) ELSE {} -> PlateQuatSamples] :
       LET r == reset_idx(reset_env_ids, reset_plates, root_states, marker_states,
                          reset_buf, progress_buf, initial_root_states, off, pq)
       IN  /\ root_states' = r.rs
           /\ marker_states' = r.ms
           /\ reset_buf' = r.rb
           /\ progress_buf' = r.pb
           /\ writes' = <<r.write>>
           /\ reset_actor_indices' = r.actor_indices
           /\ touched' = r.modified
    /\ pc' = "reset_done"
    /\ UNCHANGED <<max_episode_length, rew_buf, sim_marker_states, target_root_positions,
                   initial_root_states, initial_marker_states, thrusts, forces,
                   epoch_count, entry_progress, entry_reset, entry_root_states,
                   entry_marker_states, entry_targets, set_target_ids, reset_env_ids,
                   reset_plates, target_actor_indices, thrust_prop, history>>

NextResetIdx == reset_idx_call

SpecResetIdx == InitResetIdx /\ [][NextResetIdx]_vars

\* ---------------------------------------------------------------------------
\* C14: reset_idx returns exactly the actor indices whose root state it wrote; with
\* reset_plates set, the plate actors of the reset environments are among them.
C14_ReturnsModified ==
    pc = "reset_done" =>
        /\ Range(reset_actor_indices) = touched
        /\ reset_plates = TRUE =>
              \A i \in Range(reset_env_ids) :
                 all_actor_indices(i, 1) \in Range(reset_actor_indices)

\* ---------------------------------------------------------------------------
\* C15: the index set pre_physics_step pushes is {2i + 1 : i target-due on entry}
\* united with {2i : i flagged for reset on entry}, without duplicates; the target
\* actor set is the first of the two, the reset actor set the second, and they
\* share no index.
PushedIndices == IF writes = <<>> THEN <<>> ELSE writes[Len(writes)]

C15_PushedIndexSet ==
    pc = "post" =>
        LET A == {2 * i + 1 : i \in {e \in Envs : entry_progress[e] % TargetPeriod = 0}}
            B == {2 * i : i \in {e \in Envs : entry_reset[e] # 0}}
        IN  /\ Range(PushedIndices) = A \cup B
            /\ Len(PushedIndices) = Cardinality(Range(PushedIndices))
            /\ Range(target_actor_indices) = A
            /\ Range(reset_actor_indices) = B
            /\ Range(target_actor_indices) \cap Range(reset_actor_indices) = {}

\* An environment is target-due and reset on the same tick: both its actors are
\* pushed, once each.
C15_Witness ==
    /\ pc = "post"
    /\ \E i \in Envs :
         /\ entry_progress[i] = TargetPeriod
         /\ entry_reset[i] = 1
         /\ all_actor_indices(i, 0) \in Range(PushedIndices)
         /\ all_actor_indices(i, 1) \in Range(PushedIndices)
         /\ Len(PushedIndices) = Cardinality(Range(PushedIndices))

\* ---------------------------------------------------------------------------
\* C16: every actor whose root state a pre_physics_step modified, by set_targets or
\* by the reset, is named in the final indexed write of that step, and the
\* simulator's copy of every marker agrees with the tensor afterwards.
C16_ModifiedActorsPushed ==
    pc = "post" =>
        /\ touched \subseteq Range(PushedIndices)
        /\ sim_marker_states = marker_states

\* A tick on which one environment got a new target and another was reset: the
\* marker of the first and the drone of the second were both modified and pushed.
C16_Witness ==
    /\ pc = "post"
    /\ \E i, j \in Envs :
         /\ i # j
         /\ i \in Range(set_target_ids)
         /\ entry_progress[i] = TargetPeriod
         /\ j \in Range(reset_env_ids)
         /\ {all_actor_indices(i, 1), all_actor_indices(j, 0)} \subseteq touched
         /\ touched \subseteq Range(PushedIndices)

\* ---------------------------------------------------------------------------
\* C17: with max_episode_length >= 2, after every post_physics_step every progress
\* counter lies in 1 .. max_episode_length - 1; the counters are never all at
\* max_episode_length or beyond, and epoch_count stays 0.
C17_ProgressBound ==
    max_episode_length >= 2 =>
        /\ (pc = "pre" /\ \A i \in Envs : since_reset[i] >= 1) =>
              \A i \in Envs : progress_buf[i] \in 1 .. (max_episode_length - 1)
        /\ ~(\A i \in Envs : progress_buf[i] >= max_episode_length)
        /\ epoch_count = 0

\* After a post_physics_step one environment stands at max_episode_length - 1,
\* flagged by the time limit, another is earlier in its episode.
C17_Witness ==
    /\ pc = "pre"
    /\ max_episode_length >= 2
    /\ epoch_count = 0
    /\ \E i, j \in Envs :
         /\ since_reset[i] = max_episode_length - 1
         /\ progress_buf[i] = max_episode_length - 1
         /\ reset_buf[i] = 1
         /\ since_reset[j] >= 1
         /\ progress_buf[j] < max_episode_length - 1

\* ---------------------------------------------------------------------------
\* C18: after every pre_physics_step every reset flag is 0; a flag is 1 only
\* between a post_physics_step and the next pre_physics_step; and an environment
\* is reset on a tick exactly when its flag was set on entry to that tick.
C18_FlagsConsumed ==
    \A i \in Envs :
       /\ reset_buf[i] \in {0, 1}
       /\ reset_buf[i] = 1 => pc = "pre"
       /\ pc = "post" =>
             /\ reset_buf[i] = 0
             /\ (i \in Range(reset_env_ids)) <=> (entry_reset[i] = 1)
             /\ entry_reset[i] = 1 => (since_reset[i] = 0 /\ progress_buf[i] = 0)
             /\ entry_reset[i] = 0 => progress_buf[i] = entry_progress[i]

\* compute_reward flagged one environment and not another; the next
\* pre_physics_step reset the first, cleared its flag and left the second alone.
C18_Witness ==
    /\ pc = "post"
    /\ \E i, j \in Envs :
         /\ entry_reset[i] = 1
         /\ reset_buf[i] = 0
         /\ Range(reset_env_ids) = {i}
         /\ entry_reset[j] = 0
         /\ since_reset[j] >= 1

\* ---------------------------------------------------------------------------
\* C19: a reset of the environments S leaves the root state, the progress counter
\* and the reset flag of every environment outside S as they were, leaves every
\* target position as it was, and leaves the initial snapshot as it was taken.
C19_ResetFrame ==
    pc = "reset_done" =>
        /\ \A i \in Envs \ Range(reset_env_ids) :
              /\ root_states[i] = entry_root_states[i]
              /\ progress_buf[i] = entry_progress[i]
              /\ reset_buf[i] = entry_reset[i]
        /\ target_root_positions = entry_targets
        /\ \E tilt \in TiltSamples :
              /\ initial_root_states = created_root_states(tilt)
              /\ initial_marker_states = created_marker_states(tilt)

\* One environment was reset; another, flagged and in the middle of an episode,
\* was not in the set and kept its state, its counter and its flag.
C19_Witness ==
    /\ pc = "reset_done"
    /\ \E i, j \in Envs :
         /\ Range(reset_env_ids) = {i}
         /\ root_states[i] # entry_root_states[i]
         /\ j # i
         /\ root_states[j] = S_fly
         /\ progress_buf[j] >= 1
         /\ reset_buf[j] = 1

====
